---- MODULE Spec2Model ----
(***************************************************************************)
(* Model of TreadmillControl.Core.BluetoothTreadmillService (the session   *)
(* core of the treadmill controller) and of the HTTP endpoints that call   *)
(* it.  Every await of the C# code, and every write of a field that code   *)
(* outside the connection lock can read, is a separate step of a caller.   *)
(* Speeds are integers in hundredths of km/h (1.0 km/h = 100).             *)
(***************************************************************************)
EXTENDS Integers, Sequences, FiniteSets, TLC

\* ---------------------------------------------------------------- bounds
\* number of callers (HTTP clients)
NumCallers == 3
\* number of requests the callers issue in one run
MaxRequests == 2
\* largest speed given to BuildSpeedCommand directly, in hundredths of km/h
MaxCodecKmh == 2600
\* number of status messages the event stream carries in one run
MaxPublishes == 3
\* number of subscribers of status$
NumSubscribers == 2

\* command requests the page sends in one run
MaxCommands == 4

\* HIIT workouts begun in one run
MaxWorkouts == 2

\* segments of a HIIT workout, and seconds in each
NumSegments == 2
SegmentSeconds == 2

Procs == 1..NumCallers
\* the callers whose requests interleave freely
Pair == {1, 2}

\* speeds a caller may request, in hundredths of km/h
SpeedInputs == {50, 400, 800}
\* speeds requested when the requests come one after the other
SeqSpeedInputs == {50, 100, 110, 145, 150, 200, 400, 600, 800}

\* ------------------------------------------------------ program constants
\* if (speedKmh < 1.0) speedKmh = 1.0;
MinSpeedKmh == 100
\* if (speedKmh > 6.0) speedKmh = 6.0;
MaxSpeedKmh == 600
\* if (tenths <= 14) speedCode = tenths + 1
LowRangeTenths == 14
\* checksum = speedCode + 0x22
ChecksumOffset == 34

NULL == "null"
\* the device object a scan yields; its Gatt server and characteristics
DEV == "dev"

VARIABLES
    _device,            \* BluetoothDevice?      (NULL or DEV)
    _gatt,              \* RemoteGattServer?
    _controlChar,       \* GattCharacteristic?
    _notifyChar,        \* GattCharacteristic?
    _connectionLock,    \* SemaphoreSlim(1,1): its CurrentCount
    _isConnected,
    _isRunning,
    _currentSpeedKmh,
    linkUp,             \* the physical GATT link is established
    subscribed,         \* CharacteristicValueChanged handler is attached
    lastFrame,          \* last frame the device received (<<>>: none yet)
    requests,           \* number of requests issued so far
    caller,             \* per caller: position and locals of its request
    eventSource,        \* frontend TreadmillService: the EventSource is set
    statusSubject,      \* BehaviorSubject: its value and its observers
    observer,           \* per subscriber of status$: what it was handed
    published,          \* values passed to statusSubject.next, in order
    app,                \* the AppComponent's fields
    http                \* command requests of the page: outstanding, and sent so far

vars == <<_device, _gatt, _controlChar, _notifyChar, _connectionLock,
          _isConnected, _isRunning, _currentSpeedKmh,
          linkUp, subscribed, lastFrame, requests, caller,
          eventSource, statusSubject, observer, published, app, http>>

link == <<_device, _gatt, _controlChar, _notifyChar>>
status == <<_isConnected, _isRunning, _currentSpeedKmh>>
ui == <<app, http>>
front == <<eventSource, statusSubject, observer, published, ui>>
env == <<linkUp, subscribed, lastFrame, requests, front>>

\* ------------------------------------------------------------ pure code

\* TreadmillStatus record
TreadmillStatus(c, r, s) ==
    [isConnected |-> c, isRunning |-> r, currentSpeedKmh |-> s]

\* (byte) cast
Byte(n) == n % 256

\* (int)Math.Round(kmh * 10.0): round half to even; kmh in hundredths
RoundTenths(kmh) ==
    LET q == kmh \div 10
        r == kmh % 10
    IN  IF r < 5 THEN q
        ELSE IF r > 5 THEN q + 1
        ELSE IF q % 2 = 0 THEN q ELSE q + 1

\* the clamp of SetSpeedAsync
\* faulty variant: no upper limit
Clamp_NoUpper(speedKmh) ==
    IF speedKmh < MinSpeedKmh THEN MinSpeedKmh ELSE speedKmh

\* faulty variant: no lower limit
Clamp_NoLower(speedKmh) ==
    IF speedKmh > MaxSpeedKmh THEN MaxSpeedKmh ELSE speedKmh

Clamp(speedKmh) ==
    LET lo == IF speedKmh < MinSpeedKmh THEN MinSpeedKmh ELSE speedKmh
    IN  IF lo > MaxSpeedKmh THEN MaxSpeedKmh ELSE lo

BuildStartCommand == <<250, 239, 17, 0, 0, 0, 0, 243, 4>>

\* faulty variant: the stop frame carries the checksum of the start frame
BuildStopCommand_StartChecksum == <<250, 239, 17, 0, 0, 0, 0, 244, 4>>

BuildStopCommand == <<250, 239, 17, 0, 0, 0, 0, 244, 5>>

\* faulty variant: no offset at the low end
SpeedCode_NoOffset(tenths) == Byte(tenths)

SpeedCode(tenths) ==
    IF tenths <= LowRangeTenths THEN Byte(tenths + 1) ELSE Byte(tenths)

\* faulty variant: the checksum is not cut to a byte
BuildSpeedCommand_NoWrap(kmh) ==
    LET tenths == RoundTenths(kmh)
        speedCode == SpeedCode(tenths)
        checksum == speedCode + ChecksumOffset
    IN  <<250, 239, 17, 0, 0, 0, speedCode, 17, checksum>>

BuildSpeedCommand(kmh) ==
    LET tenths == RoundTenths(kmh)
        speedCode == SpeedCode(tenths)
        checksum == Byte(speedCode + ChecksumOffset)
    IN  <<250, 239, 17, 0, 0, 0, speedCode, 17, checksum>>

\* -------------------------------------------------------- caller records

Ops == {"connect", "disconnect", "start", "stop", "setSpeed", "getStatus"}
Commands == {"start", "stop", "setSpeed"}

NoStatus == TreadmillStatus(FALSE, FALSE, 0)

\* ---------------------------------------------- frontend TreadmillService

Subscribers == 1..NumSubscribers

\* a BehaviorSubject value: <<>> is null, <<v>> is the status v
NoValue == <<>>

\* statuses the backend sends as JSON
StatusValues == {TreadmillStatus(TRUE, FALSE, 0), TreadmillStatus(TRUE, TRUE, 400)}

\* event.data of an SSE message: JSON of a status, or text JSON.parse rejects
SseMessages ==
    {[json |-> FALSE, status |-> NoStatus]}
        \cup {[json |-> TRUE, status |-> v] : v \in StatusValues}

\* new BehaviorSubject<TreadmillStatus | null>(null); nobody has subscribed
InitFront ==
    /\ eventSource = FALSE
    /\ statusSubject = [value |-> NoValue, observers |-> {}]
    /\ observer = [s \in Subscribers |->
                     [state |-> "new", since |-> 0, log |-> <<>>, unsubs |-> 0]]
    /\ published = <<>>
    /\ app = [status |-> NoValue, speedInput |-> 200,
              isSendingCommand |-> FALSE,
              isHiitRunning |-> FALSE, hiitTimerId |-> FALSE,
              hiitCurrentIndex |-> 0, hiitRemainingSeconds |-> 0,
              workout |-> 0]
    /\ http = [pending |-> {}, sent |-> 0]

\* a caller with no request in flight
Idle ==
    [pc |-> "idle", op |-> "none", arg |-> 0, speedKmh |-> 0, exc |-> FALSE,
     result |-> "none", opens |-> 0, observed |-> NoStatus, cmd |-> <<>>,
     device |-> DEV]

\* caller p moves to label l
Goto(p, l) == caller' = [caller EXCEPT ![p].pc = l]

\* an exception leaves the request: the endpoint returns no status
Throw(p) == caller' = [caller EXCEPT ![p].pc = "done", ![p].result = "error"]

Init ==
    /\ _device = NULL
    /\ _gatt = NULL
    /\ _controlChar = NULL
    /\ _notifyChar = NULL
    /\ _connectionLock = 1
    /\ _isConnected = FALSE
    /\ _isRunning = FALSE
    /\ _currentSpeedKmh = 0
    /\ linkUp = FALSE
    /\ subscribed = FALSE
    /\ lastFrame = <<>>
    /\ requests = 0
    /\ InitFront
    /\ caller = [p \in Procs |-> Idle]

\* ------------------------------------------------------------- endpoints

\* a request arrives at one of the /api endpoints; arg keeps the speed of
\* the SpeedRequest, speedKmh is the parameter SetSpeedAsync works on
CallWith(p, speeds) ==
    /\ caller[p].pc = "idle"
    /\ requests < MaxRequests
    /\ requests' = requests + 1
    /\ \E o \in Ops :
       \E v \in (IF o = "setSpeed" THEN speeds ELSE {0}) :
          caller' = [caller EXCEPT ![p] =
                        [Idle EXCEPT !.op = o, !.arg = v, !.speedKmh = v,
                                     !.pc = CASE o = "connect" -> "c_check"
                                              [] o = "disconnect" -> "d_wait"
                                              [] o = "getStatus" -> "gs1"
                                              [] OTHER -> "e_check"]]
    /\ UNCHANGED <<link, _connectionLock, status, linkUp, subscribed,
                   lastFrame, front>>

Call(p) == CallWith(p, SpeedInputs)

\* the response has been sent; the caller may issue its next request
Return(p) ==
    /\ caller[p].pc = "done"
    /\ caller' = [caller EXCEPT ![p] = Idle]
    /\ UNCHANGED <<link, _connectionLock, status, env>>

\* faulty variant: the read waits for the connection lock to be free
GetStatus_Locking(p) ==
    /\ _connectionLock = 1
    /\ \/ /\ caller[p].pc = "gs1"
          /\ caller' = [caller EXCEPT ![p].pc = "gs2",
                           ![p].observed.isConnected = _isConnected]
       \/ /\ caller[p].pc = "gs2"
          /\ caller' = [caller EXCEPT ![p].pc = "gs3",
                           ![p].observed.isRunning = _isRunning]
       \/ /\ caller[p].pc = "gs3"
          /\ caller' = [caller EXCEPT ![p].pc = "done", ![p].result = "ok",
                           ![p].observed.currentSpeedKmh = _currentSpeedKmh]
    /\ UNCHANGED <<link, _connectionLock, status, env>>

\* GetStatus(): reads the three fields one after the other
GetStatus(p) ==
    /\ \/ /\ caller[p].pc = "gs1"
          /\ caller' = [caller EXCEPT ![p].pc = "gs2",
                           ![p].observed.isConnected = _isConnected]
       \/ /\ caller[p].pc = "gs2"
          /\ caller' = [caller EXCEPT ![p].pc = "gs3",
                           ![p].observed.isRunning = _isRunning]
       \/ /\ caller[p].pc = "gs3"
          /\ caller' = [caller EXCEPT ![p].pc = "done", ![p].result = "ok",
                           ![p].observed.currentSpeedKmh = _currentSpeedKmh]
    /\ UNCHANGED <<link, _connectionLock, status, env>>

\* ----------------------------------------------------- ConnectInternalAsync

\* an exception inside the try block of ConnectAsync: run the finally block
Fail(p) == caller' = [caller EXCEPT ![p].pc = "c_release", ![p].exc = TRUE]

\* Bluetooth.GetAvailabilityAsync(); throws when not available
ConnectInternalAsync_avail(p) ==
    /\ caller[p].pc = "ci_avail"
    /\ \/ Goto(p, "ci_scan")
       \/ Fail(p)
    /\ UNCHANGED <<link, _connectionLock, status, env>>

\* faulty variant: a device kept from an earlier attempt is used again
ConnectInternalAsync_scan_Reuse(p) ==
    /\ caller[p].pc = "ci_scan"
    /\ \/ /\ _device' = IF _device # NULL THEN _device ELSE caller[p].device
          /\ _gatt' = IF _gatt # NULL THEN _gatt ELSE caller[p].device
          /\ Goto(p, "ci_gatt")
       \/ /\ Fail(p)
          /\ UNCHANGED <<_device, _gatt>>
    /\ UNCHANGED <<_controlChar, _notifyChar, _connectionLock, status, env>>

\* Bluetooth.ScanForDevicesAsync + FirstOrDefault by name fragment: the
\* local `device` (the object this scan returns) or null;
\* _device = device; _gatt = device.Gatt
ConnectInternalAsync_scan(p) ==
    /\ caller[p].pc = "ci_scan"
    /\ \/ /\ _device' = caller[p].device
          /\ _gatt' = caller[p].device
          /\ Goto(p, "ci_gatt")
       \/ /\ Fail(p)
          /\ UNCHANGED <<_device, _gatt>>
    /\ UNCHANGED <<_controlChar, _notifyChar, _connectionLock, status, env>>

\* faulty variant: _isConnected is set as soon as the GATT link is up
ConnectInternalAsync_gatt_EarlyConnected(p) ==
    /\ caller[p].pc = "ci_gatt"
    /\ \/ /\ linkUp' = TRUE
          /\ _isConnected' = TRUE
          /\ Goto(p, "ci_service")
       \/ /\ Fail(p)
          /\ UNCHANGED <<linkUp, _isConnected>>
    /\ UNCHANGED <<link, _connectionLock, _isRunning, _currentSpeedKmh,
                   subscribed, lastFrame, requests, front>>

\* await _gatt.ConnectAsync()
ConnectInternalAsync_gatt(p) ==
    /\ caller[p].pc = "ci_gatt"
    /\ \/ /\ linkUp' = TRUE
          /\ Goto(p, "ci_service")
       \/ /\ Fail(p)
          /\ UNCHANGED linkUp
    /\ UNCHANGED <<link, _connectionLock, status, subscribed, lastFrame,
                   requests, front>>

\* _gatt.GetPrimaryServiceAsync(FFB0) ?? throw
ConnectInternalAsync_service(p) ==
    /\ caller[p].pc = "ci_service"
    /\ \/ /\ linkUp
          /\ Goto(p, "ci_control")
       \/ Fail(p)
    /\ UNCHANGED <<link, _connectionLock, status, env>>

\* _controlChar = service.GetCharacteristicAsync(FFB2) ?? throw;
\* service was got from _gatt, which only the holder of the lock assigns
ConnectInternalAsync_control(p) ==
    /\ caller[p].pc = "ci_control"
    /\ \/ /\ linkUp
          /\ _controlChar' = _gatt
          /\ Goto(p, "ci_notify")
       \/ /\ Fail(p)
          /\ UNCHANGED _controlChar
    /\ UNCHANGED <<_device, _gatt, _notifyChar, _connectionLock, status, env>>

\* _notifyChar = service.GetCharacteristicAsync(FFB1): optional;
\* when present the handler is attached
ConnectInternalAsync_notify(p) ==
    /\ caller[p].pc = "ci_notify"
    /\ \/ /\ linkUp
          /\ _notifyChar' = _gatt
          /\ subscribed' = TRUE
          /\ Goto(p, "ci_startnotif")
       \/ /\ linkUp
          /\ _notifyChar' = NULL
          /\ Goto(p, "ci_connected")
          /\ UNCHANGED subscribed
       \/ /\ Fail(p)
          /\ UNCHANGED <<_notifyChar, subscribed>>
    /\ UNCHANGED <<_device, _gatt, _controlChar, _connectionLock, status,
                   linkUp, lastFrame, requests, front>>

\* faulty variant: a failure to start notifications is not caught
ConnectInternalAsync_startnotif_Fatal(p) ==
    /\ caller[p].pc = "ci_startnotif"
    /\ \/ Goto(p, "ci_connected")
       \/ Fail(p)
    /\ UNCHANGED <<link, _connectionLock, status, env>>

\* try { await _notifyChar.StartNotificationsAsync() } catch { }
ConnectInternalAsync_startnotif(p) ==
    /\ caller[p].pc = "ci_startnotif"
    /\ Goto(p, "ci_connected")
    /\ UNCHANGED <<link, _connectionLock, status, env>>

\* _isConnected = true
ConnectInternalAsync_connected(p) ==
    /\ caller[p].pc = "ci_connected"
    /\ _isConnected' = TRUE
    /\ Goto(p, "c_release")
    /\ UNCHANGED <<link, _connectionLock, _isRunning, _currentSpeedKmh, env>>

ConnectInternalAsync(p) ==
    \/ ConnectInternalAsync_avail(p)
    \/ ConnectInternalAsync_scan(p)
    \/ ConnectInternalAsync_gatt(p)
    \/ ConnectInternalAsync_service(p)
    \/ ConnectInternalAsync_control(p)
    \/ ConnectInternalAsync_notify(p)
    \/ ConnectInternalAsync_startnotif(p)
    \/ ConnectInternalAsync_connected(p)

\* ------------------------------------------------------------ ConnectAsync

\* ConnectAsync returned normally: back to the endpoint (which reads the
\* status) or to the command that called EnsureConnectedAsync
Connected(p) ==
    Goto(p, IF caller[p].op = "connect" THEN "gs1" ELSE "send")

\* if (_isConnected) return;   (before taking the lock)
ConnectAsync_check(p) ==
    /\ caller[p].pc = "c_check"
    /\ IF _isConnected THEN Connected(p) ELSE Goto(p, "c_wait")
    /\ UNCHANGED <<link, _connectionLock, status, env>>

\* faulty variant: the lock is taken without waiting for it to be free
WaitAsync_NoWait(p, l) ==
    /\ _connectionLock' = 0
    /\ Goto(p, l)

\* await _connectionLock.WaitAsync()
WaitAsync(p, l) ==
    /\ _connectionLock > 0
    /\ _connectionLock' = _connectionLock - 1
    /\ Goto(p, l)

ConnectAsync_wait(p) ==
    /\ caller[p].pc = "c_wait"
    /\ WaitAsync(p, "c_check2")
    /\ UNCHANGED <<link, status, env>>

\* faulty variant: no second check of _isConnected under the lock
ConnectAsync_check2_NoRecheck(p) ==
    /\ caller[p].pc = "c_check2"
    /\ caller' = [caller EXCEPT ![p].pc = "ci_avail", ![p].opens = @ + 1]
    /\ UNCHANGED <<link, _connectionLock, status, env>>

\* if (_isConnected) return;  else  await ConnectInternalAsync()
ConnectAsync_check2(p) ==
    /\ caller[p].pc = "c_check2"
    /\ IF _isConnected
       THEN Goto(p, "c_release")
       ELSE caller' = [caller EXCEPT ![p].pc = "ci_avail",
                                     ![p].opens = @ + 1]
    /\ UNCHANGED <<link, _connectionLock, status, env>>

\* faulty variant: the lock is released on the normal path only
ConnectAsync_release_NoFinally(p) ==
    /\ caller[p].pc = "c_release"
    /\ IF caller[p].exc
       THEN Throw(p) /\ UNCHANGED _connectionLock
       ELSE Connected(p) /\ _connectionLock' = _connectionLock + 1
    /\ UNCHANGED <<link, status, env>>

\* finally { _connectionLock.Release(); }  then return or rethrow
ConnectAsync_release(p) ==
    /\ caller[p].pc = "c_release"
    /\ _connectionLock' = _connectionLock + 1
    /\ IF caller[p].exc THEN Throw(p) ELSE Connected(p)
    /\ UNCHANGED <<link, status, env>>

ConnectAsync(p) ==
    \/ ConnectAsync_check(p)
    \/ ConnectAsync_wait(p)
    \/ ConnectAsync_check2(p)
    \/ ConnectAsync_release(p)

\* --------------------------------------------------------- DisconnectAsync

DisconnectAsync_wait(p) ==
    /\ caller[p].pc = "d_wait"
    /\ WaitAsync(p, "d_gatt")
    /\ UNCHANGED <<link, status, env>>

\* faulty variant: an exception of _gatt.Disconnect() is not caught
DisconnectAsync_gatt_Rethrow(p) ==
    /\ caller[p].pc = "d_gatt"
    /\ IF _gatt # NULL
       THEN \/ /\ linkUp' = FALSE
               /\ Goto(p, IF _notifyChar # NULL THEN "d_notify" ELSE "d_clear1")
               /\ UNCHANGED _connectionLock
            \/ /\ Throw(p)
               /\ _connectionLock' = _connectionLock + 1
               /\ UNCHANGED linkUp
       ELSE /\ Goto(p, IF _notifyChar # NULL THEN "d_notify" ELSE "d_clear1")
            /\ UNCHANGED <<linkUp, _connectionLock>>
    /\ UNCHANGED <<link, status, subscribed, lastFrame, requests, front>>

\* try { if (_gatt != null) _gatt.Disconnect(); } catch { }
DisconnectAsync_gatt(p) ==
    /\ caller[p].pc = "d_gatt"
    /\ IF _gatt # NULL
       THEN \/ linkUp' = FALSE           \* Disconnect() closed the link
            \/ UNCHANGED linkUp          \* Disconnect() threw: swallowed
       ELSE UNCHANGED linkUp
    /\ Goto(p, IF _notifyChar # NULL THEN "d_notify" ELSE "d_clear1")
    /\ UNCHANGED <<link, _connectionLock, status, subscribed, lastFrame,
                   requests, front>>

\* try { CharacteristicValueChanged -= handler;
\*       await _notifyChar.StopNotificationsAsync(); } catch { }
DisconnectAsync_notify(p) ==
    /\ caller[p].pc = "d_notify"
    /\ subscribed' = FALSE
    /\ Goto(p, "d_clear1")
    /\ UNCHANGED <<link, _connectionLock, status, linkUp, lastFrame,
                   requests, front>>

\* _controlChar = null;
DisconnectAsync_clear1(p) ==
    /\ caller[p].pc = "d_clear1"
    /\ _controlChar' = NULL
    /\ Goto(p, "d_clear2")
    /\ UNCHANGED <<_device, _gatt, _notifyChar, _connectionLock, status, env>>

\* _notifyChar = null; _gatt = null; _device = null;
DisconnectAsync_clear2(p) ==
    /\ caller[p].pc = "d_clear2"
    /\ _notifyChar' = NULL
    /\ _gatt' = NULL
    /\ _device' = NULL
    /\ Goto(p, "d_clear3")
    /\ UNCHANGED <<_controlChar, _connectionLock, status, env>>

\* _isConnected = false;
DisconnectAsync_clear3(p) ==
    /\ caller[p].pc = "d_clear3"
    /\ _isConnected' = FALSE
    /\ Goto(p, "d_clear4")
    /\ UNCHANGED <<link, _connectionLock, _isRunning, _currentSpeedKmh, env>>

\* _isRunning = false;
DisconnectAsync_clear4(p) ==
    /\ caller[p].pc = "d_clear4"
    /\ _isRunning' = FALSE
    /\ Goto(p, "d_clear5")
    /\ UNCHANGED <<link, _connectionLock, _isConnected, _currentSpeedKmh, env>>

\* _currentSpeedKmh = 0.0;
DisconnectAsync_clear5(p) ==
    /\ caller[p].pc = "d_clear5"
    /\ _currentSpeedKmh' = 0
    /\ Goto(p, "d_release")
    /\ UNCHANGED <<link, _connectionLock, _isConnected, _isRunning, env>>

\* finally { _connectionLock.Release(); }  and return to the endpoint
DisconnectAsync_release(p) ==
    /\ caller[p].pc = "d_release"
    /\ _connectionLock' = _connectionLock + 1
    /\ Goto(p, "gs1")
    /\ UNCHANGED <<link, status, env>>

DisconnectAsync(p) ==
    \/ DisconnectAsync_wait(p)
    \/ DisconnectAsync_gatt(p)
    \/ DisconnectAsync_notify(p)
    \/ DisconnectAsync_clear1(p)
    \/ DisconnectAsync_clear2(p)
    \/ DisconnectAsync_clear3(p)
    \/ DisconnectAsync_clear4(p)
    \/ DisconnectAsync_clear5(p)
    \/ DisconnectAsync_release(p)

\* ---------------------------------------------------------------- commands

\* faulty variant: the command goes on without connecting
EnsureConnectedAsync_NoConnect(p) ==
    /\ caller[p].pc = "e_check"
    /\ Goto(p, "send")
    /\ UNCHANGED <<link, _connectionLock, status, env>>

\* if (_isConnected) return;  else  await ConnectAsync()
EnsureConnectedAsync(p) ==
    /\ caller[p].pc = "e_check"
    /\ IF _isConnected
       THEN Goto(p, "send")
       ELSE Goto(p, "c_check")
    /\ UNCHANGED <<link, _connectionLock, status, env>>

\* the frame a command writes; speedKmh is already clamped
\* faulty variant: start() sends the stop frame
Payload_StopForStart(c) ==
    CASE c.op = "start" -> BuildStopCommand
      [] c.op = "stop" -> BuildStopCommand
      [] OTHER -> BuildSpeedCommand(c.speedKmh)

Payload(c) ==
    CASE c.op = "start" -> BuildStartCommand
      [] c.op = "stop" -> BuildStopCommand
      [] OTHER -> BuildSpeedCommand(c.speedKmh)

\* faulty variant: no check of _controlChar before the write
SendCommandAsync_begin_NoCheck(p) ==
    /\ caller[p].pc = "send"
    /\ caller' = [caller EXCEPT ![p].pc = "write",
                     ![p].speedKmh = IF caller[p].op = "setSpeed"
                                     THEN Clamp(@) ELSE @]
    /\ UNCHANGED <<link, _connectionLock, status, env>>

\* SetSpeedAsync clamps its argument and builds the frame; SendCommandAsync
\* throws when _controlChar is null, otherwise starts the write
SendCommandAsync_begin(p) ==
    /\ caller[p].pc = "send"
    /\ IF _controlChar = NULL
       THEN Throw(p)
       ELSE caller' = [caller EXCEPT ![p].pc = "write",
                          ![p].speedKmh = IF caller[p].op = "setSpeed"
                                          THEN Clamp(@) ELSE @]
    /\ UNCHANGED <<link, _connectionLock, status, env>>

\* faulty variant: a failed write drops the connection
SendCommandAsync_write_Teardown(p) ==
    /\ caller[p].pc = "write"
    /\ \/ /\ linkUp
          /\ lastFrame' = Payload(caller[p])
          /\ Goto(p, "upd1")
          /\ UNCHANGED <<_controlChar, _isConnected>>
       \/ /\ Throw(p)
          /\ _controlChar' = NULL
          /\ _isConnected' = FALSE
          /\ UNCHANGED lastFrame
    /\ UNCHANGED <<_device, _gatt, _notifyChar, _connectionLock, _isRunning,
                   _currentSpeedKmh, linkUp, subscribed, requests, front>>

\* await _controlChar.WriteValueWithoutResponseAsync(payload):
\* the frame reaches the device, or the transport fails
SendCommandAsync_write(p) ==
    /\ caller[p].pc = "write"
    /\ \/ /\ linkUp
          /\ lastFrame' = Payload(caller[p])
          /\ Goto(p, "upd1")
       \/ /\ Throw(p)
          /\ UNCHANGED lastFrame
    /\ UNCHANGED <<link, _connectionLock, status, linkUp, subscribed,
                   requests, front>>

SendCommandAsync(p) ==
    \/ SendCommandAsync_begin(p)
    \/ SendCommandAsync_write(p)

\* _isRunning = true;
StartAsync(p) ==
    /\ caller[p].pc = "upd1"
    /\ caller[p].op = "start"
    /\ _isRunning' = TRUE
    /\ Goto(p, "gs1")
    /\ UNCHANGED <<link, _connectionLock, _isConnected, _currentSpeedKmh, env>>

\* faulty variant: stop leaves the speed as it is
StopAsync_KeepSpeed(p) ==
    /\ caller[p].op = "stop"
    /\ \/ /\ caller[p].pc = "upd1"
          /\ _isRunning' = FALSE
          /\ Goto(p, "upd2")
       \/ /\ caller[p].pc = "upd2"
          /\ Goto(p, "gs1")
          /\ UNCHANGED _isRunning
    /\ UNCHANGED <<link, _connectionLock, _isConnected, _currentSpeedKmh, env>>

\* _isRunning = false; _currentSpeedKmh = 0.0;
StopAsync(p) ==
    /\ caller[p].op = "stop"
    /\ \/ /\ caller[p].pc = "upd1"
          /\ _isRunning' = FALSE
          /\ Goto(p, "upd2")
          /\ UNCHANGED _currentSpeedKmh
       \/ /\ caller[p].pc = "upd2"
          /\ _currentSpeedKmh' = 0
          /\ Goto(p, "gs1")
          /\ UNCHANGED _isRunning
    /\ UNCHANGED <<link, _connectionLock, _isConnected, env>>

\* _currentSpeedKmh = speedKmh; _isRunning = speedKmh > 0.0;
SetSpeedAsync(p) ==
    /\ caller[p].op = "setSpeed"
    /\ \/ /\ caller[p].pc = "upd1"
          /\ _currentSpeedKmh' = caller[p].speedKmh
          /\ Goto(p, "upd2")
          /\ UNCHANGED _isRunning
       \/ /\ caller[p].pc = "upd2"
          /\ _isRunning' = (caller[p].speedKmh > 0)
          /\ Goto(p, "gs1")
          /\ UNCHANGED _currentSpeedKmh
    /\ UNCHANGED <<link, _connectionLock, _isConnected, env>>

\* ------------------------------------------------------------- environment

\* the physical BLE link drops (out of range, power off)
LinkLost ==
    /\ linkUp
    /\ linkUp' = FALSE
    /\ UNCHANGED <<link, _connectionLock, status, subscribed, lastFrame,
                   requests, front, caller>>

\* ----------------------------------------------------------- specification

Step(p) ==
    \/ Call(p)
    \/ Return(p)
    \/ GetStatus(p)
    \/ ConnectAsync(p)
    \/ ConnectInternalAsync(p)
    \/ DisconnectAsync(p)
    \/ EnsureConnectedAsync(p)
    \/ SendCommandAsync(p)
    \/ StartAsync(p)
    \/ StopAsync(p)
    \/ SetSpeedAsync(p)

Next == (\E p \in Pair : Step(p)) \/ LinkLost

Spec == Init /\ [][Next]_vars

TypeOK ==
    /\ link \in {NULL, DEV} \X {NULL, DEV} \X {NULL, DEV} \X {NULL, DEV}
    /\ _connectionLock \in {0, 1}
    /\ _isConnected \in BOOLEAN /\ _isRunning \in BOOLEAN
    /\ _currentSpeedKmh \in 0..MaxSpeedKmh
    /\ linkUp \in BOOLEAN /\ subscribed \in BOOLEAN

\* ------------------------------------------------------------- fairness

\* a request that has arrived is run to its end by the thread pool: every
\* step of caller p other than the arrival of a new request
Progress(p) ==
    \/ Return(p)
    \/ GetStatus(p)
    \/ ConnectAsync(p)
    \/ ConnectInternalAsync(p)
    \/ DisconnectAsync(p)
    \/ EnsureConnectedAsync(p)
    \/ SendCommandAsync(p)
    \/ StartAsync(p)
    \/ StopAsync(p)
    \/ SetSpeedAsync(p)

SpecFair == Init /\ [][Next]_vars /\ \A p \in Pair : WF_vars(Progress(p))

\* --------------------------------------- requests one after the other

\* the single caller of the sequential runs
Single == {CHOOSE p \in Procs : \A q \in Procs : p <= q}

CallSeq(p) == CallWith(p, SeqSpeedInputs)

NextSeq ==
    \/ \E p \in Single :
          \/ CallSeq(p)
          \/ Return(p)
          \/ GetStatus(p)
          \/ ConnectAsync(p)
          \/ ConnectInternalAsync(p)
          \/ DisconnectAsync(p)
          \/ EnsureConnectedAsync(p)
          \/ SendCommandAsync(p)
          \/ StartAsync(p)
          \/ StopAsync(p)
          \/ SetSpeedAsync(p)
    \/ LinkLost

SpecSeq == Init /\ [][NextSeq]_vars

\* ------------------------- reconnects: every scan returns a new object

\* the device object returned by the scan made for the n-th request
Fresh(n) == "dev" \o ToString(n)

\* a request arrives; a scan made for it will return an object of its own
CallFresh(p) ==
    /\ caller[p].pc = "idle"
    /\ requests < MaxRequests + 1
    /\ requests' = requests + 1
    /\ \E o \in Ops \ {"getStatus"} :
       \E v \in (IF o = "setSpeed" THEN SpeedInputs ELSE {0}) :
          caller' = [caller EXCEPT ![p] =
                        [Idle EXCEPT !.op = o, !.arg = v, !.speedKmh = v,
                                     !.device = Fresh(requests + 1),
                                     !.pc = CASE o = "connect" -> "c_check"
                                              [] o = "disconnect" -> "d_wait"
                                              [] OTHER -> "e_check"]]
    /\ UNCHANGED <<link, _connectionLock, status, linkUp, subscribed,
                   lastFrame, front>>

NextReconnect ==
    \/ \E p \in Single : CallFresh(p)
    \/ \E p \in Single : Progress(p)
    \/ LinkLost

SpecReconnect == Init /\ [][NextReconnect]_vars

\* ------------------------------ connect and disconnect requests only

\* a connect or disconnect request arrives
CallGate(p) ==
    /\ caller[p].pc = "idle"
    /\ requests < MaxRequests + 1
    /\ requests' = requests + 1
    /\ \E o \in {"connect", "disconnect"} :
          caller' = [caller EXCEPT ![p] =
                        [Idle EXCEPT !.op = o,
                                     !.pc = IF o = "connect" THEN "c_check"
                                            ELSE "d_wait"]]
    /\ UNCHANGED <<link, _connectionLock, status, linkUp, subscribed,
                   lastFrame, front>>

\* the steps of a connect or disconnect request that has arrived
GateProgress(p) ==
    \/ Return(p)
    \/ GetStatus(p)
    \/ ConnectAsync(p)
    \/ ConnectInternalAsync(p)
    \/ DisconnectAsync(p)

NextGate ==
    \/ \E p \in Pair : CallGate(p)
    \/ \E p \in Pair : GateProgress(p)
    \/ LinkLost

\* every step of a request that has arrived is taken in the end
SpecGate ==
    Init /\ [][NextGate]_vars /\ \A p \in Pair : WF_vars(GateProgress(p))

\* ------------------------------------------------ device notifications

\* the thread on which the BLE stack raises CharacteristicValueChanged
Callback == {CHOOSE p \in Procs : \A q \in Procs : q <= p}

\* values of e.Value: empty, one byte, a frame-like value
NotifyPayloads == {<<>>, <<0>>, <<250, 239, 17, 0, 0, 0, 40, 17, 74>>}

\* the treadmill sends a value on FFB1 while the handler is attached
CharacteristicValueChanged(h) ==
    /\ caller[h].pc \in {"idle", "n_done"}
    /\ subscribed
    /\ linkUp
    /\ \E value \in NotifyPayloads :
          caller' = [caller EXCEPT ![h] =
                        [Idle EXCEPT !.op = "notify", !.pc = "n_handle",
                                     !.cmd = value]]
    /\ UNCHANGED <<link, _connectionLock, status, env>>

\* faulty variant: the handler decodes the first byte as the speed
NotifyCharOnCharacteristicValueChanged_Decoding(h) ==
    /\ caller[h].pc = "n_handle"
    /\ IF caller[h].cmd = <<>>
       THEN /\ caller' = [caller EXCEPT ![h].pc = "n_done",
                                        ![h].result = "error"]
            /\ UNCHANGED _currentSpeedKmh
       ELSE /\ caller' = [caller EXCEPT ![h].pc = "n_done",
                                        ![h].result = "ok"]
            /\ _currentSpeedKmh' = caller[h].cmd[1]
    /\ UNCHANGED <<link, _connectionLock, _isConnected, _isRunning, env>>

\* the handler: its body is empty
NotifyCharOnCharacteristicValueChanged(h) ==
    /\ caller[h].pc = "n_handle"
    /\ caller' = [caller EXCEPT ![h].pc = "n_done", ![h].result = "ok"]
    /\ UNCHANGED <<link, _connectionLock, status, env>>

NextNotify ==
    \/ NextSeq
    \/ \E h \in Callback : CharacteristicValueChanged(h)
    \/ \E h \in Callback : NotifyCharOnCharacteristicValueChanged(h)

SpecNotify == Init /\ [][NextNotify]_vars

\* --------------------------------------------------- status$ in the browser

\* connectToEvents(): creates the EventSource once
connectToEvents ==
    /\ IF eventSource
       THEN UNCHANGED eventSource
       ELSE eventSource' = TRUE
    /\ UNCHANGED <<link, _connectionLock, status, linkUp, subscribed,
                   lastFrame, requests, caller, ui, statusSubject, observer,
                   published>>

\* statusSubject.next(value): the value is kept and handed to every observer
BehaviorSubject_next(value) ==
    /\ statusSubject' = [statusSubject EXCEPT !.value = <<value>>]
    /\ observer' = [s \in Subscribers |->
                      IF s \in statusSubject.observers
                      THEN [observer[s] EXCEPT !.log = Append(@, <<value>>)]
                      ELSE observer[s]]
    /\ published' = Append(published, value)

\* faulty variant: the value is handed on but not kept
onmessage_NoReplace(event) ==
    /\ eventSource
    /\ Len(published) < MaxPublishes
    /\ IF event.json
       THEN /\ UNCHANGED statusSubject
            /\ observer' = [s \in Subscribers |->
                              IF s \in statusSubject.observers
                              THEN [observer[s] EXCEPT
                                      !.log = Append(@, <<event.status>>)]
                              ELSE observer[s]]
            /\ published' = Append(published, event.status)
       ELSE UNCHANGED <<statusSubject, observer, published>>
    /\ UNCHANGED <<link, _connectionLock, status, linkUp, subscribed,
                   lastFrame, requests, caller, ui, eventSource>>

\* eventSource.onmessage: JSON.parse(event.data), then statusSubject.next;
\* a parse error is caught and logged
onmessage(event) ==
    /\ eventSource
    /\ Len(published) < MaxPublishes
    /\ IF event.json
       THEN BehaviorSubject_next(event.status)
       ELSE UNCHANGED <<statusSubject, observer, published>>
    /\ UNCHANGED <<link, _connectionLock, status, linkUp, subscribed,
                   lastFrame, requests, caller, ui, eventSource>>

\* faulty variant: a plain Subject, nothing is handed over on subscribe
Subscribe_NoReplay(s) ==
    /\ observer[s].state = "new"
    /\ statusSubject' = [statusSubject EXCEPT !.observers = @ \cup {s}]
    /\ observer' = [observer EXCEPT ![s].state = "active",
                       ![s].since = Len(published)]
    /\ UNCHANGED <<link, _connectionLock, status, linkUp, subscribed,
                   lastFrame, requests, caller, ui, eventSource, published>>

\* status$.subscribe(callback): the observer is added and is handed the
\* current value at once
Subscribe(s) ==
    /\ observer[s].state = "new"
    /\ statusSubject' = [statusSubject EXCEPT !.observers = @ \cup {s}]
    /\ observer' = [observer EXCEPT ![s].state = "active",
                       ![s].since = Len(published),
                       ![s].log = <<statusSubject.value>>]
    /\ UNCHANGED <<link, _connectionLock, status, linkUp, subscribed,
                   lastFrame, requests, caller, ui, eventSource, published>>

\* unsubscribe(handle): removes the subscriber; may be repeated
Unsubscribe(s) ==
    /\ observer[s].state \in {"active", "closed"}
    /\ observer[s].unsubs < 2
    /\ statusSubject' = [statusSubject EXCEPT !.observers = @ \ {s}]
    /\ observer' = [observer EXCEPT ![s].state = "closed",
                       ![s].unsubs = @ + 1]
    /\ UNCHANGED <<link, _connectionLock, status, linkUp, subscribed,
                   lastFrame, requests, caller, ui, eventSource, published>>

NextHub ==
    \/ connectToEvents
    \/ \E event \in SseMessages : onmessage(event)
    \/ \E s \in Subscribers : Subscribe(s)
    \/ \E s \in Subscribers : Unsubscribe(s)

SpecHub == Init /\ [][NextHub]_vars

\* ------------------------------------------------- AppComponent (the page)
\* Every handler and every subscribe callback runs to completion on the one
\* JavaScript thread, so each is one action.  app.hiitTimerId is TRUE while
\* the interval is set; app.workout counts the workouts onHiitStart began and
\* every request carries the workout on whose behalf it was sent (0: a manual
\* command).  A start request of the workout carries in arg the speed of the
\* segment its complete callback will apply.

\* statuses a response or an SSE message hands to the page
UiStatuses == StatusValues \cup {NoStatus}

\* how a command request came to be sent
Origins == {"manual", "hiitStart", "hiitSpeed", "hiitStop", "finish"}

\* get isConnected(): !!this.status?.isConnected
isConnected(a) == a.status # NoValue /\ a.status[1].isConnected

\* get isRunning(): !!this.status?.isRunning
isRunning(a) == a.status # NoValue /\ a.status[1].isRunning

\* this.treadmill.start() / stop() / setSpeed(arg): the POST leaves
HttpPost(h, kind, arg, origin, w) ==
    [pending |-> h.pending \cup
                    {[id |-> h.sent + 1, kind |-> kind, arg |-> arg,
                      origin |-> origin, workout |-> w]},
     sent |-> h.sent + 1]

\* the page has requests left to send within the bound
CanSend == http.sent < MaxCommands

\* speed steps of the +/- buttons and speeds of the shortcut buttons
Deltas == {-10, 10}
ShortcutSpeeds == {300, 500}

\* segment.speedKmh of hiitSegments[index]: warmup, high and recover in
\* turns, cooldown
SegmentSpeed(index) ==
    IF index = 0 \/ index = NumSegments - 1 THEN 300
    ELSE IF index % 2 = 1 THEN 500 ELSE 350

onStart ==
    /\ CanSend
    /\ isConnected(app)
    /\ ~app.isSendingCommand
    /\ app' = [app EXCEPT !.isSendingCommand = TRUE]
    /\ http' = HttpPost(http, "start", 0, "manual", 0)
    /\ UNCHANGED <<link, _connectionLock, status, linkUp, subscribed,
                   lastFrame, requests, caller, eventSource, statusSubject,
                   observer, published>>

onStop ==
    /\ CanSend
    /\ isConnected(app)
    /\ ~app.isSendingCommand
    /\ app' = [app EXCEPT !.isSendingCommand = TRUE]
    /\ http' = HttpPost(http, "stop", 0, "manual", 0)
    /\ UNCHANGED <<link, _connectionLock, status, linkUp, subscribed,
                   lastFrame, requests, caller, eventSource, statusSubject,
                   observer, published>>

onChangeSpeed(delta) ==
    /\ CanSend
    /\ isConnected(app)
    /\ ~app.isSendingCommand
    /\ app' = [app EXCEPT !.isSendingCommand = TRUE]
    /\ http' = HttpPost(http, "setSpeed",
                        app.status[1].currentSpeedKmh + delta, "manual", 0)
    /\ UNCHANGED <<link, _connectionLock, status, linkUp, subscribed,
                   lastFrame, requests, caller, eventSource, statusSubject,
                   observer, published>>

onSetSpeed ==
    /\ CanSend
    /\ isConnected(app)
    /\ ~app.isSendingCommand
    /\ app' = [app EXCEPT !.isSendingCommand = TRUE]
    /\ http' = HttpPost(http, "setSpeed", app.speedInput, "manual", 0)
    /\ UNCHANGED <<link, _connectionLock, status, linkUp, subscribed,
                   lastFrame, requests, caller, eventSource, statusSubject,
                   observer, published>>

\* onShortcutSpeed(value): speedInput is set first, then onSetSpeed() runs
\* behind the same guard
onShortcutSpeed(value) ==
    /\ CanSend
    /\ IF isConnected(app) /\ ~app.isSendingCommand
       THEN /\ app' = [app EXCEPT !.speedInput = value,
                                  !.isSendingCommand = TRUE]
            /\ http' = HttpPost(http, "setSpeed", value, "manual", 0)
       ELSE /\ app' = [app EXCEPT !.speedInput = value]
            /\ UNCHANGED http
    /\ UNCHANGED <<link, _connectionLock, status, linkUp, subscribed,
                   lastFrame, requests, caller, eventSource, statusSubject,
                   observer, published>>

\* finishHiitWorkout(): <<app, http>> after it ran on <<a, h>>
finishHiitWorkout(a, h) ==
    LET a1 == [a EXCEPT !.hiitTimerId = FALSE, !.isHiitRunning = FALSE,
                        !.hiitRemainingSeconds = 0]
    IN  IF isConnected(a1)
        THEN <<[a1 EXCEPT !.isSendingCommand = TRUE],
               HttpPost(h, "stop", 0, "finish", a.workout)>>
        ELSE <<a1, h>>

\* the closure applySpeed of the segment of workout w
applySpeed(a, h, speedKmh, w) ==
    <<[a EXCEPT !.isSendingCommand = TRUE],
      HttpPost(h, "setSpeed", speedKmh, "hiitSpeed", w)>>

\* startHiitSegment(index): <<app, http>> after it ran on <<a, h>>
startHiitSegment(a, h, index) ==
    IF ~isConnected(a)
    THEN <<[a EXCEPT !.isHiitRunning = FALSE, !.hiitTimerId = FALSE], h>>
    ELSE IF index >= NumSegments
    THEN finishHiitWorkout(a, h)
    ELSE LET a1 == [a EXCEPT !.hiitCurrentIndex = index,
                             !.hiitRemainingSeconds = SegmentSeconds]
         IN  IF ~isRunning(a1)
             THEN <<[a1 EXCEPT !.isSendingCommand = TRUE],
                    HttpPost(h, "start", SegmentSpeed(index), "hiitStart",
                             a.workout)>>
             ELSE applySpeed(a1, h, SegmentSpeed(index), a.workout)

onHiitStart ==
    /\ CanSend
    /\ app.workout < MaxWorkouts
    /\ isConnected(app)
    /\ ~app.isHiitRunning
    /\ LET a1 == [app EXCEPT !.isHiitRunning = TRUE, !.hiitTimerId = FALSE,
                             !.workout = @ + 1]
           after == startHiitSegment(a1, http, 0)
       IN  /\ app' = [after[1] EXCEPT !.hiitTimerId = TRUE]
           /\ http' = after[2]
    /\ UNCHANGED <<link, _connectionLock, status, linkUp, subscribed,
                   lastFrame, requests, caller, eventSource, statusSubject,
                   observer, published>>

onHiitStop ==
    /\ CanSend
    /\ app.isHiitRunning
    /\ LET a1 == [app EXCEPT !.hiitTimerId = FALSE, !.isHiitRunning = FALSE,
                             !.hiitRemainingSeconds = 0]
       IN  IF isConnected(a1)
           THEN /\ app' = [a1 EXCEPT !.isSendingCommand = TRUE]
                /\ http' = HttpPost(http, "stop", 0, "hiitStop", app.workout)
           ELSE /\ app' = a1
                /\ UNCHANGED http
    /\ UNCHANGED <<link, _connectionLock, status, linkUp, subscribed,
                   lastFrame, requests, caller, eventSource, statusSubject,
                   observer, published>>

\* the interval fires: tickHiit()
tickHiit ==
    /\ CanSend
    /\ app.hiitTimerId
    /\ IF ~app.isHiitRunning
       THEN UNCHANGED <<app, http>>
       ELSE LET a1 == [app EXCEPT !.hiitRemainingSeconds =
                                      IF @ > 0 THEN @ - 1 ELSE @]
                nextIndex == a1.hiitCurrentIndex + 1
                after == IF a1.hiitRemainingSeconds <= 0
                         THEN IF nextIndex >= NumSegments
                              THEN finishHiitWorkout(a1, http)
                              ELSE startHiitSegment(a1, http, nextIndex)
                         ELSE <<a1, http>>
            IN  /\ app' = after[1]
                /\ http' = after[2]
    /\ UNCHANGED <<link, _connectionLock, status, linkUp, subscribed,
                   lastFrame, requests, caller, eventSource, statusSubject,
                   observer, published>>

\* the response of request r arrives with status s: next(s), then complete()
CommandCompleted(r, s) ==
    /\ r \in http.pending
    /\ r.origin = "hiitStart" => CanSend
    /\ LET a1 == [app EXCEPT !.status = <<s>>, !.isSendingCommand = FALSE]
           h1 == [http EXCEPT !.pending = @ \ {r}]
           after == IF r.origin = "hiitStart"
                    THEN applySpeed(a1, h1, r.arg, r.workout)
                    ELSE <<a1, h1>>
       IN  /\ app' = after[1]
           /\ http' = after[2]
    /\ UNCHANGED <<link, _connectionLock, status, linkUp, subscribed,
                   lastFrame, requests, caller, eventSource, statusSubject,
                   observer, published>>

\* request r fails: error(err)
CommandFailed(r) ==
    /\ r \in http.pending
    /\ r.origin \in {"hiitStart", "hiitSpeed"} => CanSend
    /\ LET a1 == [app EXCEPT !.isSendingCommand = FALSE]
           h1 == [http EXCEPT !.pending = @ \ {r}]
           after == IF r.origin \in {"hiitStart", "hiitSpeed"}
                    THEN finishHiitWorkout(a1, h1)
                    ELSE <<a1, h1>>
       IN  /\ app' = after[1]
           /\ http' = after[2]
    /\ UNCHANGED <<link, _connectionLock, status, linkUp, subscribed,
                   lastFrame, requests, caller, eventSource, statusSubject,
                   observer, published>>

\* the status$ subscription of ngOnInit is handed the status v
statusCallback(v) ==
    /\ app' = [app EXCEPT !.status = <<v>>]
    /\ UNCHANGED <<link, _connectionLock, status, linkUp, subscribed,
                   lastFrame, requests, caller, eventSource, statusSubject,
                   observer, published, http>>

NextApp ==
    \/ onStart
    \/ onStop
    \/ \E delta \in Deltas : onChangeSpeed(delta)
    \/ onSetSpeed
    \/ \E value \in ShortcutSpeeds : onShortcutSpeed(value)
    \/ onHiitStart
    \/ onHiitStop
    \/ tickHiit
    \/ \E r \in http.pending : \E s \in UiStatuses : CommandCompleted(r, s)
    \/ \E r \in http.pending : CommandFailed(r)
    \/ \E v \in UiStatuses : statusCallback(v)

SpecApp == Init /\ [][NextApp]_vars

\* ------------------------------------------- BuildSpeedCommand on its own

\* BuildSpeedCommand is about to be applied to a speed of 0 .. MaxCodecKmh
InitCodec ==
    /\ _device = NULL
    /\ _gatt = NULL
    /\ _controlChar = NULL
    /\ _notifyChar = NULL
    /\ _connectionLock = 1
    /\ _isConnected = FALSE
    /\ _isRunning = FALSE
    /\ _currentSpeedKmh = 0
    /\ linkUp = FALSE
    /\ subscribed = FALSE
    /\ lastFrame = <<>>
    /\ requests = 0
    /\ InitFront
    /\ \E v \in 0..MaxCodecKmh :
          caller = [p \in Procs |->
                      IF p \in Single
                      THEN [Idle EXCEPT !.op = "build", !.pc = "build",
                                        !.arg = v, !.speedKmh = v]
                      ELSE Idle]

\* var cmd = BuildSpeedCommand(speedKmh);
Encode(p) ==
    /\ caller[p].pc = "build"
    /\ caller' = [caller EXCEPT ![p].pc = "built",
                     ![p].cmd = BuildSpeedCommand(caller[p].speedKmh)]
    /\ UNCHANGED <<link, _connectionLock, status, env>>

NextCodec == \E p \in Single : Encode(p)

SpecCodec == InitCodec /\ [][NextCodec]_vars

\* --------------------------------------- the three Build...Command functions

\* a start, stop or set-speed frame is about to be built; the speed given
\* to BuildSpeedCommand is 0 .. MaxCodecKmh
InitFrames ==
    /\ _device = NULL
    /\ _gatt = NULL
    /\ _controlChar = NULL
    /\ _notifyChar = NULL
    /\ _connectionLock = 1
    /\ _isConnected = FALSE
    /\ _isRunning = FALSE
    /\ _currentSpeedKmh = 0
    /\ linkUp = FALSE
    /\ subscribed = FALSE
    /\ lastFrame = <<>>
    /\ requests = 0
    /\ InitFront
    /\ \E o \in Commands :
       \E v \in (IF o = "setSpeed" THEN 0..MaxCodecKmh ELSE {0}) :
          caller = [p \in Procs |->
                      IF p \in Single
                      THEN [Idle EXCEPT !.op = o, !.pc = "build",
                                        !.arg = v, !.speedKmh = v]
                      ELSE Idle]

\* var cmd = BuildStartCommand() / BuildStopCommand() / BuildSpeedCommand(kmh)
BuildCommand(p) ==
    /\ caller[p].pc = "build"
    /\ caller' = [caller EXCEPT ![p].pc = "built",
                     ![p].cmd = Payload(caller[p])]
    /\ UNCHANGED <<link, _connectionLock, status, env>>

NextFrames == \E p \in Single : BuildCommand(p)

SpecFrames == InitFrames /\ [][NextFrames]_vars

\* ------------------------------------------ N concurrent connect() calls

\* every caller has just invoked connect() on a fresh, Disconnected session
InitConnect ==
    /\ _device = NULL
    /\ _gatt = NULL
    /\ _controlChar = NULL
    /\ _notifyChar = NULL
    /\ _connectionLock = 1
    /\ _isConnected = FALSE
    /\ _isRunning = FALSE
    /\ _currentSpeedKmh = 0
    /\ linkUp = FALSE
    /\ subscribed = FALSE
    /\ lastFrame = <<>>
    /\ requests = NumCallers
    /\ InitFront
    /\ caller = [p \in Procs |-> [Idle EXCEPT !.op = "connect",
                                             !.pc = "c_check"]]

NextConnect ==
    \E p \in Procs : ConnectAsync(p) \/ ConnectInternalAsync(p) \/ GetStatus(p)

SpecConnect == InitConnect /\ [][NextConnect]_vars

\* ------------------------------------------------------------ properties

RECURSIVE SumOpens(_)
SumOpens(S) ==
    IF S = {} THEN 0
    ELSE LET p == CHOOSE x \in S : TRUE
         IN  caller[p].opens + SumOpens(S \ {p})

\* number of ConnectInternalAsync invocations made by the requests so far
TotalOpens == SumOpens(Procs)

AllReturned == \A p \in Procs : caller[p].pc = "done"
Succeeded == {p \in Procs : caller[p].result = "ok"}
Failed == {p \in Procs : caller[p].result = "error"}

\* C1 (as stated): once N concurrent connect() calls against a Disconnected
\* session have all returned, exactly one ConnectInternalAsync invocation
\* was made, whatever its outcome, and all callers got the same result and
\* the same Status.
C1_ExactlyOneOpen ==
    AllReturned =>
        /\ TotalOpens = 1
        /\ \A p, q \in Procs :
              /\ caller[p].result = caller[q].result
              /\ caller[p].observed = caller[q].observed

\* C1 (amended): once N concurrent connect() calls against a Disconnected
\* session have all returned, at most one ConnectInternalAsync invocation
\* succeeded; every caller whose call failed made exactly one (failed)
\* invocation of its own, so the number of invocations is the number of
\* failed callers plus one if some caller succeeded (exactly one when no
\* invocation fails); all callers that returned normally observe the same
\* Status {isConnected:true, isRunning:false, currentSpeedKmh:0}.
C1_OneOpenPerOutcome ==
    AllReturned =>
        /\ TotalOpens = Cardinality(Failed) + (IF Succeeded # {} THEN 1 ELSE 0)
        /\ \A p \in Failed : caller[p].opens = 1
        /\ \A p \in Succeeded :
              caller[p].observed = TreadmillStatus(TRUE, FALSE, 0)

\* C1 witness: all N callers returned normally after a single invocation
C1_Witness ==
    /\ AllReturned
    /\ Succeeded = Procs
    /\ TotalOpens = 1
    /\ _isConnected

\* labels at which the caller holds _connectionLock
ConnectGated ==
    {"c_check2", "ci_avail", "ci_scan", "ci_gatt", "ci_service", "ci_control",
     "ci_notify", "ci_startnotif", "ci_connected", "c_release"}
DisconnectGated ==
    {"d_gatt", "d_notify", "d_clear1", "d_clear2", "d_clear3", "d_clear4",
     "d_clear5", "d_release"}
Gated(p) == caller[p].pc \in ConnectGated \cup DisconnectGated

\* C2: at most one caller is inside the gated section: no two connection
\* attempts are in flight together and no connection attempt overlaps a
\* disconnect teardown.
C2_MutualExclusion ==
    \A p, q \in Procs : (p # q /\ Gated(p)) => ~Gated(q)

\* C2 witness: one caller is inside ConnectInternalAsync while another has
\* called disconnect() and waits for the lock
C2_Witness ==
    \E p, q \in Procs :
        /\ caller[p].pc = "ci_gatt"
        /\ caller[q].pc = "d_wait"

\* C3: a Status never has isRunning = true while isConnected = false.
C3_RunningImpliesConnected == _isRunning => _isConnected

\* C4: isConnected = false implies currentSpeedKmh = 0.
C4_DisconnectedSpeedZero == ~_isConnected => _currentSpeedKmh = 0

\* C5: whenever isRunning is true, currentSpeedKmh lies within
\* [minSpeedKmh, maxSpeedKmh].
C5_RunningSpeedInRange ==
    _isRunning =>
        (MinSpeedKmh <= _currentSpeedKmh /\ _currentSpeedKmh <= MaxSpeedKmh)

\* a service operation of caller q has been called and has not returned
InFlight(q) == caller[q].pc \notin {"idle", "gs1", "gs2", "gs3", "done"}

\* C6: when disconnect() has finished its teardown and returns, and no other
\* operation is in flight, the Status is exactly
\* {isConnected:false, isRunning:false, currentSpeedKmh:0}.
C6_DisconnectResets ==
    \A p \in Procs :
        ( /\ caller[p].pc = "d_release"
          /\ \A q \in Procs \ {p} : ~InFlight(q) )
        => status = <<FALSE, FALSE, 0>>

\* C7: disconnect() never fails, and when it returns (it is about to release
\* the lock) isConnected is false and the device, GATT, control and notify
\* references are all null, whatever the state it started from and whatever
\* the teardown steps threw; a repeated disconnect ends in that same state.
C7_DisconnectAlwaysDisconnected ==
    \A p \in Procs :
        caller[p].op = "disconnect" =>
            /\ caller[p].result # "error"
            /\ ~caller[p].exc
            /\ caller[p].pc = "d_release" =>
                  (link = <<NULL, NULL, NULL, NULL>> /\ ~_isConnected)

\* C7 witness: a disconnect is about to return although _gatt.Disconnect()
\* threw and left the physical link up
C7_Witness ==
    \E p \in Procs : caller[p].pc = "d_release" /\ linkUp

\* labels inside ConnectInternalAsync
OpenLabels ==
    {"ci_avail", "ci_scan", "ci_gatt", "ci_service", "ci_control",
     "ci_notify", "ci_startnotif", "ci_connected"}

\* C8: when a connect attempt fails at any step, isConnected is false and
\* the failing caller changed neither isRunning nor currentSpeedKmh; the
\* error leaves ConnectAsync through the finally block to the caller, which
\* has made exactly one invocation of ConnectInternalAsync and makes no
\* further one.
C8_FailedConnectDisconnected ==
    [][\A p \in Procs :
         /\ (caller[p].pc \in OpenLabels /\ caller'[p].pc # caller[p].pc)
               => /\ UNCHANGED <<_isRunning, _currentSpeedKmh>>
                  /\ caller'[p].exc => (~_isConnected' /\ caller'[p].opens = 1)
         /\ (caller[p].pc = "c_release" /\ caller[p].exc
                                        /\ caller'[p].pc # caller[p].pc)
               => /\ ~_isConnected'
                  /\ UNCHANGED <<_isRunning, _currentSpeedKmh>>
                  /\ caller'[p].pc = "done"
                  /\ caller'[p].result = "error"
                  /\ caller'[p].opens = 1
      ]_vars

\* C8 witness: connect() failed after the scan had found the device
C8_Witness ==
    \E p \in Procs :
        /\ caller[p].op = "connect"
        /\ caller[p].pc = "done"
        /\ caller[p].result = "error"
        /\ _device = DEV
        /\ ~_isConnected

\* C9: a write failure fails the command and changes none of isConnected,
\* isRunning, currentSpeedKmh and the link references; isRunning and
\* currentSpeedKmh are written by a command only after its write succeeded.
C9_WriteFailureKeepsState ==
    [][\A p \in Procs :
         /\ (caller[p].pc = "write" /\ caller'[p].pc = "done")
               => /\ caller'[p].result = "error"
                  /\ UNCHANGED <<status, link, lastFrame>>
         /\ (caller[p].pc \in {"e_check", "send", "write"}
                                        /\ caller'[p].pc # caller[p].pc)
               => UNCHANGED <<status, link>>
         /\ (caller[p].pc # "upd1" /\ caller'[p].pc = "upd1")
               => /\ caller[p].pc = "write"
                  /\ lastFrame' = Payload(caller[p])
      ]_vars

\* C9 witness: a command on a Connected session failed and the session is
\* still connected with its control characteristic
C9_Witness ==
    \E p \in Procs :
        /\ caller[p].op \in Commands
        /\ caller[p].opens = 0
        /\ caller[p].pc = "done"
        /\ caller[p].result = "error"
        /\ _isConnected
        /\ _controlChar # NULL

\* C10: a command called on a Disconnected session enters ConnectAsync (the
\* gated connect path) and goes on to SendCommandAsync only when that call
\* returned normally, at which moment the session is Connected; a command
\* that finds the session Connected goes straight to SendCommandAsync
\* without any ConnectInternalAsync invocation; a frame is written only
\* from SendCommandAsync.
C10_CommandsConnectFirst ==
    [][\A p \in Procs :
         /\ (caller[p].pc = "e_check" /\ caller'[p].pc # "e_check")
               => IF _isConnected
                  THEN caller'[p].pc = "send" /\ caller'[p].opens = 0
                  ELSE caller'[p].pc = "c_check"
         /\ (caller[p].pc # "send" /\ caller'[p].pc = "send")
               => /\ _isConnected
                  /\ ~caller[p].exc
                  /\ caller[p].pc \in {"e_check", "c_check", "c_release"}
                  /\ caller'[p].opens <= 1
         /\ (caller[p].pc # "write" /\ caller'[p].pc = "write")
               => caller[p].pc = "send"
         /\ (caller[p].op \in Commands /\ caller'[p].pc # caller[p].pc
                                       /\ lastFrame' # lastFrame)
               => caller[p].pc = "write"
      ]_vars

\* C10 witness: a command auto-connected (one invocation) and wrote its frame
C10_Witness ==
    \E p \in Procs :
        /\ caller[p].op \in Commands
        /\ caller[p].pc = "upd1"
        /\ caller[p].opens = 1

\* labels of a command before its write has started
BeforeWrite == {"e_check", "c_check", "c_wait", "c_check2", "c_release", "send"}
                  \cup OpenLabels

\* C11: a command whose auto-connect fails, or that finds _controlChar null
\* when it is about to write, ends with an error; the steps that fail leave
\* isConnected, isRunning and currentSpeedKmh as they are, no step of the
\* command before its write changes isRunning, currentSpeedKmh or the frame
\* the device last received, and a write is started only with a control
\* characteristic.
C11_FailedCommandWritesNothing ==
    [][\A p \in Procs :
         (caller[p].op \in Commands /\ caller'[p].pc # caller[p].pc) =>
            /\ caller[p].pc \in BeforeWrite
                  => UNCHANGED <<_isRunning, _currentSpeedKmh, lastFrame>>
            /\ (caller[p].pc = "c_release" /\ caller[p].exc)
                  => /\ caller'[p].pc = "done"
                     /\ caller'[p].result = "error"
                     /\ UNCHANGED status
            /\ (caller[p].pc = "send" /\ _controlChar = NULL)
                  => /\ caller'[p].pc = "done"
                     /\ caller'[p].result = "error"
                     /\ UNCHANGED status
            /\ caller'[p].pc = "write" => _controlChar # NULL
      ]_vars

\* C11 witness: a command failed because its auto-connect failed; the device
\* has received no frame
C11_Witness ==
    \E p \in Procs :
        /\ caller[p].op \in Commands
        /\ caller[p].pc = "done"
        /\ caller[p].result = "error"
        /\ caller[p].opens = 1
        /\ ~_isConnected
        /\ lastFrame = <<>>

\* v limited to [lo, hi]
Limit(v, lo, hi) == IF v < lo THEN lo ELSE IF v > hi THEN hi ELSE v

\* C12: with one request at a time, a setSpeed(v) that returned normally
\* leaves Status {isConnected:true, isRunning:true, currentSpeedKmh: v
\* limited to [1.0, 6.0]}, a stop() that returned normally leaves
\* {isConnected:true, isRunning:false, currentSpeedKmh:0}, and a start() that
\* returned normally leaves isConnected and isRunning true and never changes
\* currentSpeedKmh.
C12_SequentialCommandEffect ==
    /\ [](\A p \in Procs :
            caller[p].pc = "gs1" =>
               /\ caller[p].op = "setSpeed" =>
                     status = <<TRUE, TRUE, Limit(caller[p].arg, 100, 600)>>
               /\ caller[p].op = "stop" => status = <<TRUE, FALSE, 0>>
               /\ caller[p].op = "start" => (_isConnected /\ _isRunning))
    /\ [][\A p \in Procs :
            caller[p].op = "start" => UNCHANGED _currentSpeedKmh]_vars

\* C12 witness: setSpeed(4.0) has returned and the Status is
\* {isConnected:true, isRunning:true, currentSpeedKmh:4.0}
C12_Witness ==
    \E p \in Procs :
        /\ caller[p].op = "setSpeed"
        /\ caller[p].arg = 400
        /\ caller[p].pc = "gs1"
        /\ status = <<TRUE, TRUE, 400>>

\* C13: when the physical link is lost while the session is Connected,
\* isConnected eventually becomes false.
C13_LinkLossDisconnects == (_isConnected /\ ~linkUp) ~> ~_isConnected

\* (speedCode, checksum) of the captured frames: 1.1 -> (0x0B, 0x2D),
\* 1.5 -> (0x0F, 0x31), 2.0 -> (0x14, 0x36), 4.0 -> (0x28, 0x4A)
KnownVectors ==
    [v \in {110, 150, 200, 400} |->
        CASE v = 110 -> <<11, 45>>
          [] v = 150 -> <<15, 49>>
          [] v = 200 -> <<20, 54>>
          [] v = 400 -> <<40, 74>>]

\* C14: the set-speed frame written for 1.1, 1.5, 2.0 and 4.0 km/h carries
\* the (speedCode, checksum) of the known vectors.
C14_KnownEncodingVectors ==
    \A p \in Procs :
        ( /\ caller[p].op = "setSpeed"
          /\ caller[p].pc = "upd1"
          /\ caller[p].arg \in DOMAIN KnownVectors )
        => <<lastFrame[7], lastFrame[9]>> = KnownVectors[caller[p].arg]

C16_ChecksumLaw ==
    \A p \in Procs :
        caller[p].pc = "built" =>
            /\ caller[p].cmd[7] \in 0..255
            /\ caller[p].cmd[9] = (caller[p].cmd[7] + 34) % 256

\* C16 witness: speedCode 0xFF has been built with the wrapped checksum 0x21
C16_Witness ==
    \E p \in Procs :
        /\ caller[p].pc = "built"
        /\ caller[p].cmd[7] = 255
        /\ caller[p].cmd[9] = 33

\* C17: setSpeed(v) with v < 1.0 writes the frame and leaves the Status of
\* setSpeed(1.0), setSpeed(v) with v > 6.0 those of setSpeed(6.0), and a speed
\* that has been clamped is not changed by clamping it again.
C17_ClampIdempotence ==
    LET frame10 == <<250, 239, 17, 0, 0, 0, 11, 17, 45>>
        frame60 == <<250, 239, 17, 0, 0, 0, 60, 17, 94>>
    IN  \A p \in Procs :
           caller[p].op = "setSpeed" =>
              /\ caller[p].pc = "upd1" =>
                    /\ caller[p].arg <= 100 => lastFrame = frame10
                    /\ caller[p].arg >= 600 => lastFrame = frame60
              /\ caller[p].pc = "gs1" =>
                    /\ caller[p].arg <= 100 => status = <<TRUE, TRUE, 100>>
                    /\ caller[p].arg >= 600 => status = <<TRUE, TRUE, 600>>
              /\ (caller[p].pc = "done" /\ caller[p].result = "ok") =>
                    /\ caller[p].arg <= 100 =>
                          caller[p].observed = TreadmillStatus(TRUE, TRUE, 100)
                    /\ caller[p].arg >= 600 =>
                          caller[p].observed = TreadmillStatus(TRUE, TRUE, 600)
              /\ caller[p].pc \in {"write", "upd1", "upd2", "gs1"} =>
                    Clamp(caller[p].speedKmh) = caller[p].speedKmh

\* C17 witness: setSpeed(0.5) has written the frame of setSpeed(1.0)
C17_Witness ==
    \E p \in Procs :
        /\ caller[p].op = "setSpeed"
        /\ caller[p].arg = 50
        /\ caller[p].pc = "upd1"
        /\ lastFrame[7] = 11

\* C18: every set-speed frame the device receives carries a speedCode of
\* 0x0B .. 0x3C, whatever the order of the operations and the speed asked
\* for; a speed out of range is clamped and sent, never refused.
C18_CommandedSpeedBounded ==
    /\ []((lastFrame # <<>> /\ lastFrame[8] = 17) =>
             (11 <= lastFrame[7] /\ lastFrame[7] <= 60))
    /\ [][\A p \in Procs :
            ( /\ caller[p].op = "setSpeed"
              /\ caller[p].pc = "send"
              /\ _controlChar # NULL
              /\ caller'[p].pc # caller[p].pc )
            => /\ caller'[p].pc = "write"
               /\ caller'[p].speedKmh \in MinSpeedKmh..MaxSpeedKmh]_vars

\* C18 witness: setSpeed(8.0) has written speedCode 0x3C
C18_Witness ==
    \E p \in Procs :
        /\ caller[p].op = "setSpeed"
        /\ caller[p].arg = 800
        /\ caller[p].pc = "upd1"
        /\ lastFrame[7] = 60

\* C19: start() always writes FA EF 11 00 00 00 00 F3 04 and stop() always
\* writes FA EF 11 00 00 00 00 F4 05, whatever the session state; every frame
\* written is 9 bytes long and begins FA EF 11 00 00 00.
C19_FixedFrames ==
    /\ [](lastFrame # <<>> =>
             /\ Len(lastFrame) = 9
             /\ SubSeq(lastFrame, 1, 6) = <<250, 239, 17, 0, 0, 0>>)
    /\ [][\A p \in Procs :
            (caller[p].pc = "write" /\ caller'[p].pc = "upd1") =>
               /\ caller[p].op = "start" =>
                     lastFrame' = <<250, 239, 17, 0, 0, 0, 0, 243, 4>>
               /\ caller[p].op = "stop" =>
                     lastFrame' = <<250, 239, 17, 0, 0, 0, 0, 244, 5>>]_vars

\* C19 witness: start() has written its frame while the belt was running at
\* a speed that an earlier setSpeed had set
C19_Witness ==
    \E p \in Procs :
        /\ caller[p].op = "start"
        /\ caller[p].pc = "upd1"
        /\ _currentSpeedKmh > 0
        /\ lastFrame = <<250, 239, 17, 0, 0, 0, 0, 243, 4>>

\* C20: getStatus() can take its next step in every state, also while the
\* connection lock is held, and none of its steps changes a session field,
\* the lock, the link or the frames at the device.
C20_GetStatusPureRead ==
    /\ [](\A p \in Procs :
            caller[p].pc \in {"gs1", "gs2", "gs3"} => ENABLED GetStatus(p))
    /\ [][\A p \in Procs :
            ( /\ caller[p].pc \in {"gs1", "gs2", "gs3"}
              /\ caller'[p].pc # caller[p].pc )
            => /\ UNCHANGED <<link, _connectionLock, status>>
               /\ UNCHANGED <<linkUp, subscribed, lastFrame>>
               /\ caller'[p].result # "error"]_vars

\* C20 witness: a getStatus() request is reading the fields while another
\* caller holds the connection lock
C20_Witness ==
    \E p \in Procs :
        /\ caller[p].op = "getStatus"
        /\ caller[p].pc = "gs2"
        /\ _connectionLock = 0
        /\ \E q \in Procs \ {p} : Gated(q)

\* C21: a connect() that finds the session Connected, at its first check or
\* at the check under the lock, starts no ConnectInternalAsync (no scan, no
\* GATT connect), and a connect() call that starts none changes neither
\* isConnected, isRunning, currentSpeedKmh nor a held reference in any of
\* its steps.
C21_ConnectWhenConnectedNoOp ==
    [][\A p \in Procs :
         (caller[p].op = "connect" /\ caller'[p].pc # caller[p].pc) =>
            /\ (caller[p].pc \in {"c_check", "c_check2"} /\ _isConnected) =>
                  /\ caller'[p].pc \in {"gs1", "c_release"}
                  /\ caller'[p].opens = caller[p].opens
            /\ (caller[p].opens = 0 /\ caller'[p].opens = 0) =>
                  /\ UNCHANGED <<link, status>>
                  /\ UNCHANGED <<linkUp, subscribed, lastFrame>>]_vars

\* C21 witness: a connect() on a Connected session has returned without an
\* open, the references still held
C21_Witness ==
    \E p \in Procs :
        /\ caller[p].op = "connect"
        /\ caller[p].pc = "done"
        /\ caller[p].result = "ok"
        /\ caller[p].opens = 0
        /\ _isConnected
        /\ link = <<DEV, DEV, DEV, DEV>>

\* C22: a device notification never alters Status and never raises an
\* error: whatever the value and the state it arrives in, isConnected,
\* isRunning and currentSpeedKmh are the same before and after the handler.
C22_NotificationsKeepStatus ==
    [][\A h \in Procs :
         ( /\ "n_handle" \in {caller[h].pc, caller'[h].pc}
           /\ caller'[h] # caller[h] )
         => /\ UNCHANGED status
            /\ caller'[h].result # "error"]_vars

\* C22 witness: the handler has returned from an empty value while the belt
\* was running
C22_Witness ==
    \E h \in Procs :
        /\ caller[h].op = "notify"
        /\ caller[h].pc = "n_done"
        /\ caller[h].cmd = <<>>
        /\ _isRunning
        /\ _currentSpeedKmh > 0

\* C23: a subscriber that joins status$ after at least one publish is handed
\* the last published Status in the subscribe step itself, so before any
\* later publish reaches it.
C23_SubscriberReplay ==
    /\ [][\A s \in Subscribers :
            ( /\ observer[s].state = "new"
              /\ observer'[s].state = "active"
              /\ published # <<>> )
            => /\ observer'[s].log = <<<<published[Len(published)]>>>>
               /\ published' = published]_vars
    /\ [](\A s \in Subscribers :
            (observer[s].state # "new" /\ observer[s].since >= 1) =>
               /\ observer[s].log # <<>>
               /\ observer[s].log[1] = <<published[observer[s].since]>>)

\* C23 witness: a subscriber joined after the first publish, was handed that
\* value first, and a different value was published afterwards
C23_Witness ==
    \E s \in Subscribers :
        /\ observer[s].state = "active"
        /\ observer[s].since = 1
        /\ Len(published) >= 2
        /\ published[2] # published[1]
        /\ observer[s].log = <<<<published[1]>>, <<published[2]>>>>

\* what an active subscriber that joined after `since` publishes has been
\* handed: the value current when it joined, then every later value in order
Handed(since) ==
    [i \in 1..(Len(published) - since + 1) |->
        IF i = 1
        THEN IF since = 0 THEN NoValue ELSE <<published[since]>>
        ELSE <<published[since + i - 1]>>]

\* C24: a publish replaces the current snapshot and hands it to every
\* subscriber active at that moment, so the last value a subscriber was
\* handed is the most recent one, values arrive in the order published and
\* nothing older than the value current at subscribe time is replayed; an
\* unsubscribe, also a repeated one, removes the subscriber, which is handed
\* nothing further.
C24_LatestValueDelivery ==
    /\ [](/\ statusSubject.value =
                IF published = <<>> THEN NoValue
                ELSE <<published[Len(published)]>>
          /\ \A s \in Subscribers :
                /\ s \in statusSubject.observers <=> observer[s].state = "active"
                /\ observer[s].state = "active" =>
                      observer[s].log = Handed(observer[s].since))
    /\ [][\A s \in Subscribers :
            observer[s].state = "closed" =>
               /\ observer'[s].state = "closed"
               /\ observer'[s].log = observer[s].log
               /\ s \notin statusSubject'.observers]_vars

\* C24 witness: one subscriber unsubscribed twice and missed a later publish
\* that another, still active, subscriber was handed
C24_Witness ==
    \E s, t \in Subscribers :
        /\ observer[s].state = "closed"
        /\ observer[s].unsubs = 2
        /\ Len(observer[s].log) < Len(published) - observer[s].since + 1
        /\ observer[t].state = "active"
        /\ Len(observer[t].log) >= 3
        /\ observer[t].log[Len(observer[t].log)] = statusSubject.value

\* C25: once the commands running against a Connected session have all
\* completed, isRunning and currentSpeedKmh are those of the command whose
\* frame the device received last: not running at speed 0 after a stop
\* frame, running at the frame's speed after a set-speed frame, running
\* after a start frame.
C25_StatusOfLastFrame ==
    \A p \in Procs :
        ( /\ caller[p].op \in Commands
          /\ caller[p].pc = "gs1"
          /\ _isConnected
          /\ \A q \in Procs \ {p} : ~InFlight(q) )
        => /\ lastFrame = BuildStopCommand =>
                 (~_isRunning /\ _currentSpeedKmh = 0)
           /\ lastFrame = BuildStartCommand => _isRunning
           /\ lastFrame[8] = 17 =>
                 /\ _isRunning
                 /\ lastFrame = BuildSpeedCommand(_currentSpeedKmh)

\* labels of an open attempt after its scan
AfterScan == {"ci_gatt", "ci_service", "ci_control", "ci_notify",
              "ci_startnotif", "ci_connected"}

\* C26: a connect attempt that reaches open scans anew and takes the device,
\* the GATT server and the characteristics from that scan: after its scan
\* the attempt works on the object its own scan returned, none of the
\* references held before (from a failed attempt or from before a
\* disconnect) is among those it ends with, and a Connected session holds
\* references of one scan only.
C26_NoHandleReuse ==
    /\ [](\A p \in Procs :
            /\ caller[p].pc \in AfterScan =>
                  (_device = caller[p].device /\ _gatt = caller[p].device)
            /\ caller[p].pc \in {"ci_notify", "ci_startnotif", "ci_connected"}
                  => _controlChar = caller[p].device
            /\ caller[p].pc \in {"ci_startnotif", "ci_connected"}
                  => _notifyChar \in {NULL, caller[p].device})
    /\ [](_isConnected =>
            \A a, b \in {_device, _gatt, _controlChar, _notifyChar} \ {NULL} :
               a = b)
    /\ [][\A p \in Procs :
            (caller[p].pc = "ci_scan" /\ caller'[p].pc = "ci_gatt") =>
               /\ _device' \notin {_device, _gatt, _controlChar, _notifyChar}
               /\ _gatt' = _device']_vars

\* C26 witness: the third request connected again after a connect and a
\* disconnect, on the object of its own scan
C26_Witness ==
    \E p \in Procs :
        /\ caller[p].op = "connect"
        /\ caller[p].pc = "gs1"
        /\ caller[p].opens = 1
        /\ caller[p].device = Fresh(3)
        /\ _isConnected
        /\ link = <<Fresh(3), Fresh(3), Fresh(3), Fresh(3)>>

\* C27: the notify characteristic is optional and starting notifications is
\* best-effort: an attempt that finds no notify characteristic, or has tried
\* to start notifications, goes on to set isConnected and ends without an
\* error, whereas an attempt that does not get the service or the control
\* characteristic fails and leaves isConnected false.
C27_NotifyOptional ==
    /\ [][\A p \in Procs :
            caller'[p].pc # caller[p].pc =>
               /\ (caller[p].pc = "ci_notify" /\ _notifyChar' = NULL
                      /\ ~caller'[p].exc)
                     => caller'[p].pc = "ci_connected"
               /\ caller[p].pc = "ci_startnotif"
                     => (caller'[p].pc = "ci_connected" /\ ~caller'[p].exc)
               /\ caller[p].pc = "ci_connected"
                     => /\ _isConnected'
                        /\ caller'[p].pc = "c_release"
                        /\ ~caller'[p].exc
               /\ (caller[p].pc = "ci_service" /\ caller'[p].pc # "ci_control")
                     => /\ caller'[p].pc = "c_release"
                        /\ caller'[p].exc
                        /\ ~_isConnected'
               /\ (caller[p].pc = "ci_control" /\ caller'[p].pc # "ci_notify")
                     => /\ caller'[p].pc = "c_release"
                        /\ caller'[p].exc
                        /\ ~_isConnected'
                        /\ UNCHANGED _controlChar
               /\ (caller[p].pc = "c_release" /\ caller[p].exc)
                     => (caller'[p].result = "error" /\ caller'[p].pc = "done")]_vars
    /\ [](\A p \in Procs :
            /\ caller[p].pc \in {"ci_notify", "ci_startnotif", "ci_connected"}
                  => _controlChar # NULL
            /\ (caller[p].pc = "c_release" /\ ~caller[p].exc) => _isConnected)

\* C27 witness: an attempt without a notify characteristic has ended
\* Connected
C27_Witness ==
    \E p \in Procs :
        /\ caller[p].pc = "c_release"
        /\ ~caller[p].exc
        /\ caller[p].opens = 1
        /\ _notifyChar = NULL
        /\ _isConnected

\* callers waiting for the connection lock
AtGate == {"c_wait", "d_wait"}

\* C28: the connection lock is released on every exit path: the lock is
\* held exactly while one caller is inside the gated section, so never with
\* nobody inside, and (every step of a running request being taken in the
\* end) a caller waiting for the lock gets it and leaves the gated section
\* again.
C28_GateReleased ==
    /\ [](/\ _connectionLock \in {0, 1}
          /\ _connectionLock = 0 <=> (\E p \in Procs : Gated(p))
          /\ \A p \in Procs : caller[p].pc \in {"idle", "done"} => ~Gated(p))
    /\ \A p \in Procs :
          (caller[p].pc \in AtGate) ~>
              (caller[p].pc \notin AtGate \cup ConnectGated \cup DisconnectGated)

\* C28 witness: a failed connect has released the lock while another caller
\* waits for it
C28_Witness ==
    \E p, q \in Procs :
        /\ caller[p].pc = "done"
        /\ caller[p].result = "error"
        /\ caller[p].opens = 1
        /\ caller[q].pc \in AtGate
        /\ _connectionLock = 1

\* C29: whenever isConnected is false and no connect attempt or teardown is
\* in flight, the session holds no device, GATT server, control or notify
\* characteristic reference, also after an attempt that failed part-way.
C29_NoReferenceAfterFailure ==
    ( /\ ~_isConnected
      /\ \A p \in Procs : ~Gated(p) )
    => link = <<NULL, NULL, NULL, NULL>>

\* speeds of 1.0 .. 6.0 km/h in steps of a tenth, in hundredths of km/h
CommandableSpeeds == {10 * t : t \in 10..60}

\* C30: two distinct speeds of 10 .. 60 tenths of km/h get distinct
\* speedCode values, hence distinct frames.
C30_EncodingInjective ==
    \A p \in Procs :
        (caller[p].pc = "built" /\ caller[p].arg \in CommandableSpeeds) =>
            \A other \in CommandableSpeeds \ {caller[p].arg} :
                /\ BuildSpeedCommand(other)[7] # caller[p].cmd[7]
                /\ BuildSpeedCommand(other) # caller[p].cmd

\* C31: one checksum rule covers start, stop and set-speed frames (for every
\* speedCode of 0 .. 255): the last byte of the frame is the sum of the
\* bytes at 0-based indices 2 .. 7, modulo 256.
C31_OneChecksumRule ==
    \A p \in Procs :
        caller[p].pc = "built" =>
            LET f == caller[p].cmd
            IN  /\ Len(f) = 9
                /\ f[9] = (f[3] + f[4] + f[5] + f[6] + f[7] + f[8]) % 256

\* C31 witness: the stop frame has been built; its sum 0x11 + 0xF4 passes
\* 255 and the last byte is 0x05
C31_Witness ==
    \E p \in Procs :
        /\ caller[p].pc = "built"
        /\ caller[p].op = "stop"
        /\ caller[p].cmd[8] = 244
        /\ caller[p].cmd[9] = 5

\* C32: the page keeps at most one start, stop or setSpeed request in flight,
\* whether a button or the HIIT workout sent it, and isSendingCommand is true
\* exactly while such a request is outstanding.
C32_OneCommandInFlight ==
    /\ Cardinality(http.pending) <= 1
    /\ app.isSendingCommand <=> http.pending # {}

\* C33: a start or setSpeed request sent on behalf of a HIIT workout leaves
\* only while that workout is the running one: once onHiitStop or
\* finishHiitWorkout has ended the workout, none of its callbacks sends one.
C33_NoCommandAfterHiitEnd ==
    [][\A r \in http'.pending \ http.pending :
           (r.workout > 0 /\ r.kind \in {"start", "setSpeed"}) =>
               (app'.isHiitRunning /\ app'.workout = r.workout)]_vars

====
